---- MODULE Spec2Model ----
\* Model of the restaurant bot: the message handler (Handler.HandleMessage), the
\* JSON-file record store guarded by fileMutex, the duplicate check against the
\* ML API, and the pending-confirmation map guarded by
\* pendingConfirmationsMutex.  Each handler is one goroutine handling one
\* inbound message; handlers interleave at lock acquisitions, at every file
\* read and write, and at the HTTP round trip.
EXTENDS Integers, Sequences, FiniteSets

\* ---------------------------------------------------------------- bounds
\* Longest record list: a message that could grow the list past it is not
\* received.
MaxLen == 2
\* Longest record list the file may hold when the bot starts.
InitMaxLen == 1

\* The handler goroutines that can run at the same time; each handles one
\* message and is then free for the next.
Handlers == {1, 2}
Channels == {"c1", "c2"}
\* Strings are sequences of tokens; a name is a sequence of name characters.
Q == "\""
NameChars == {"a", "b"}
Names == {<<c>> : c \in NameChars}
AddPrefix == <<"!add ", Q>>
RemovePrefix == <<"!remove ", Q>>
\* The names users ask to remove.
RemoveNames == {<<"a">>}
\* The message texts a user sends.
UserContents ==
    {<<"!yes">>, <<"!NO">>, <<"!ping">>, <<"!list">>, <<"!ml">>}
    \cup {AddPrefix \o n \o <<Q>> : n \in Names \cup {<<>>}}
    \cup {RemovePrefix \o n \o <<Q>> : n \in RemoveNames \cup {<<>>}}
\* The bot's own replies come back through the gateway; none is a command.
BotContents == {<<"hi">>}
\* The names the oracle reports as the match of a duplicate.
MatchedNames == {<<"a">>}
\* Lists the file may hold at start (initDB creates [] or keeps the file).
RECURSIVE SeqsUpTo(_)
SeqsUpTo(n) ==
    IF n = 0 THEN {<<>>}
    ELSE LET S == SeqsUpTo(n - 1)
         IN S \cup {Append(s, x) : s \in {t \in S : Len(t) = n - 1}, x \in Names}
InitLists == SeqsUpTo(InitMaxLen)

\* ------------------------------------------------------- string helpers
HasPrefix(s, p) == Len(s) >= Len(p) /\ SubSeq(s, 1, Len(p)) = p
HasSuffix(s, p) == Len(s) >= Len(p) /\ SubSeq(s, Len(s) - Len(p) + 1, Len(s)) = p
TrimPrefix(s, p) == IF HasPrefix(s, p) THEN SubSeq(s, Len(p) + 1, Len(s)) ELSE s
TrimSuffix(s, p) == IF HasSuffix(s, p) THEN SubSeq(s, 1, Len(s) - Len(p)) ELSE s
LowerTok(t) ==
    CASE t = "!NO" -> "!no"
      [] t = "!YES" -> "!yes"
      [] OTHER -> t
ToLower(s) == [i \in 1..Len(s) |-> LowerTok(s[i])]

\* --------------------------------------------------------------- oracle
\* What the HTTP round trip to the ML API can produce.  body.valid is whether
\* the body is JSON of the expected shape; is_duplicate is "true", "false",
\* "absent" or "mistyped" (a non-boolean JSON value).
NoCall == [transport |-> "none", status |-> 0,
           body |-> [valid |-> FALSE, is_duplicate |-> "absent", matched_name |-> <<>>]]
OracleReplies ==
    {[transport |-> "failed", status |-> 0,
      body |-> [valid |-> FALSE, is_duplicate |-> "absent", matched_name |-> <<>>]]}
    \cup {[transport |-> "ok", status |-> 200,
           body |-> [valid |-> FALSE, is_duplicate |-> "absent", matched_name |-> <<>>]]}
    \cup {[transport |-> "ok", status |-> 200,
           body |-> [valid |-> TRUE, is_duplicate |-> "true", matched_name |-> n]] : n \in MatchedNames}
    \cup {[transport |-> "ok", status |-> 200,
           body |-> [valid |-> TRUE, is_duplicate |-> d, matched_name |-> <<>>]]
             : d \in {"false", "absent", "mistyped"}}
    \cup {[transport |-> "ok", status |-> 500,
           body |-> [valid |-> TRUE, is_duplicate |-> "absent", matched_name |-> <<>>]]}

\* json.Unmarshal into struct{Result DuplicateCheckResponse}: an absent field
\* keeps its zero value, a field of the wrong JSON type is an error.
\* (Faulty variant: every body is taken as decoded.)
DecodeNeverFails(r) == FALSE
DecodeFails(r) == ~r.body.valid \/ r.body.is_duplicate = "mistyped"
\* (Faulty variant: a verdict that is not false counts as a duplicate.)
DuplicateCheckResponseUnlessFalse(r) ==
    [isNil |-> FALSE,
     IsDuplicate |-> (r.body.is_duplicate # "false"),
     MatchedName |-> r.body.matched_name]
DuplicateCheckResponse(r) ==
    [isNil |-> FALSE,
     IsDuplicate |-> (r.body.is_duplicate = "true"),
     MatchedName |-> r.body.matched_name]
NilInfo == [isNil |-> TRUE, IsDuplicate |-> FALSE, MatchedName |-> <<>>]

\* ---------------------------------------------------------------- state
VARIABLES
    file,                       \* the record list stored in dbFilePath
    fileMutex,                  \* holder of fileMutex, Nobody when free
    pendingConfirmations,       \* map ChannelID -> PendingConfirmation
    pendingConfirmationsMutex,  \* holder of the map's mutex
    frame,                      \* each handler goroutine: pc and locals
    hist,                       \* history of each running handler (not program state)
    expected,                   \* the initial list with every successful append and
                                \* remove applied in order of return (history)
    stale,                      \* channels whose entry was installed before a later
                                \* file write (history)
    outstanding,                \* per channel: installs minus overwrites minus
                                \* consumed entries (history)
    lastInstall                 \* per channel: the candidate of the latest install
                                \* not yet consumed, else the empty name (history)

vars == <<file, fileMutex, pendingConfirmations, pendingConfirmationsMutex,
          frame, hist, expected, stale, outstanding, lastInstall>>

Nobody == 0
PendingConfirmation(new, matched) == [NewName |-> new, MatchedName |-> matched]
ZeroConfirmation == PendingConfirmation(<<>>, <<>>)

NewFrame ==
    [pc |-> "new", ChannelID |-> "", Content |-> <<>>,
     confirmation |-> ZeroConfirmation, ok |-> FALSE,
     restaurantName |-> <<>>, restaurants |-> <<>>,
     duplicateInfo |-> NilInfo, err |-> "", count |-> 0, reply |-> ""]
NewHist ==
    [oracle |-> NoCall, wrote |-> FALSE, ioFailed |-> FALSE,
     installed |-> FALSE, consumed |-> FALSE, listChanged |-> FALSE]

Init ==
    /\ file \in InitLists
    /\ expected = file
    /\ fileMutex = Nobody
    /\ pendingConfirmations = [c \in {} |-> ZeroConfirmation]
    /\ pendingConfirmationsMutex = Nobody
    /\ frame = [h \in Handlers |-> NewFrame]
    /\ hist = [h \in Handlers |-> NewHist]
    /\ stale = {}
    /\ outstanding = [c \in Channels |-> 0]
    /\ lastInstall = [c \in Channels |-> <<>>]

\* Go map operations.
MapHas(m, k) == k \in DOMAIN m
\* (Faulty variant of assignment: an entry already there is kept.)
MapPutIfAbsent(m, k, v) == [x \in DOMAIN m \cup {k} |-> IF x \in DOMAIN m THEN m[x] ELSE v]
MapPut(m, k, v) == [x \in DOMAIN m \cup {k} |-> IF x = k THEN v ELSE m[x]]
\* (Faulty variants of delete: the entry stays; the whole map is cleared.)
MapDeleteKeeps(m, k) == m
MapDeleteAll(m, k) == [x \in {} |-> m[x]]
MapDelete(m, k) == [x \in DOMAIN m \ {k} |-> m[x]]

\* sync.Mutex: Lock blocks until the mutex is free; Unlock frees it.
\* (Faulty variants: a Lock that never waits, an Unlock that does nothing.)
NeverBlocks(m) == TRUE
CanLock(m) == m = Nobody
UnlockForgotten(m) == m
Unlock(m) == Nobody

SetFrame(h, f) == frame' = [frame EXCEPT ![h] = f]
SetHist(h, x) == hist' = [hist EXCEPT ![h] = x]
\* The handler returns: its locals other than the results are dead.
Return(f, reply) == [f EXCEPT !.pc = "done", !.reply = reply, !.restaurants = <<>>]

\* ------------------------------------------------------ HandleMessage
\* Messages whose handling can append a record, and the handlers running one.
MayGrow(c) == HasPrefix(c, AddPrefix) \/ ToLower(c) = <<"!no">>
Growing == {k \in Handlers : frame[k].pc \notin {"new", "done"} /\ MayGrow(frame[k].Content)}

\* Lines 34-37: a message arrives and its goroutine starts (in the lowest free
\* slot).  The bot's own messages are dropped.
Receive(h) ==
    /\ frame[h].pc = "new"
    /\ \A k \in Handlers : k < h => frame[k].pc # "new"
    /\ \/ \E ch \in Channels, c \in UserContents :
            /\ MayGrow(c) => Len(file) + Cardinality(Growing) < MaxLen
            /\ SetFrame(h, [frame[h] EXCEPT !.pc = "L40", !.ChannelID = ch, !.Content = c])
       \/ \E ch \in Channels, c \in BotContents :
            SetFrame(h, [Return(frame[h], "") EXCEPT !.ChannelID = ch, !.Content = c])
    /\ UNCHANGED <<file, fileMutex, pendingConfirmations, pendingConfirmationsMutex,
                   hist, expected, stale, outstanding, lastInstall>>

\* The goroutine ends.
Exit(h) ==
    /\ frame[h].pc = "done"
    /\ SetFrame(h, NewFrame)
    /\ SetHist(h, NewHist)
    /\ UNCHANGED <<file, fileMutex, pendingConfirmations, pendingConfirmationsMutex,
                   expected, stale, outstanding, lastInstall>>

\* Where the switch of line 42 goes for a pending channel.
\* (Faulty variants: no default branch; "!yes" taken for "!no".)
SwitchTargetNoDefault(content) ==
    CASE ToLower(content) = <<"!yes">> -> "L44"
      [] OTHER -> "L49"
SwitchTargetYesAdds(content) ==
    CASE ToLower(content) \in {<<"!yes">>, <<"!no">>} -> "L49"
      [] OTHER -> "L60"
SwitchTarget(content) ==
    CASE ToLower(content) = <<"!yes">> -> "L44"
      [] ToLower(content) = <<"!no">> -> "L49"
      [] OTHER -> "L60"

\* Lines 40-42: lock, the map lookup and the switch; the mutex stays held.
CheckPendingFound(h) ==
    /\ frame[h].pc = "L40"
    /\ CanLock(pendingConfirmationsMutex)
    /\ MapHas(pendingConfirmations, frame[h].ChannelID)
    /\ pendingConfirmationsMutex' = h
    /\ SetFrame(h, [frame[h] EXCEPT
                      !.confirmation = pendingConfirmations[frame[h].ChannelID],
                      !.ok = TRUE,
                      !.pc = SwitchTarget(frame[h].Content)])
    /\ UNCHANGED <<file, fileMutex, pendingConfirmations, hist, expected, stale, outstanding, lastInstall>>

\* Lines 40-41, 65: lock, no entry for the channel, unlock.  The handler goes
\* on to the commands in the same step.
NotPending(h) ==
    /\ frame[h].pc = "L40"
    /\ CanLock(pendingConfirmationsMutex)
    /\ ~MapHas(pendingConfirmations, frame[h].ChannelID)

\* Lines 44-47: "!yes".
ConfirmYes(h) ==
    /\ frame[h].pc = "L44"
    /\ pendingConfirmations' = MapDelete(pendingConfirmations, frame[h].ChannelID)
    /\ pendingConfirmationsMutex' = Unlock(pendingConfirmationsMutex)
    /\ SetFrame(h, Return(frame[h], "WillNotAdd"))
    /\ SetHist(h, [hist[h] EXCEPT !.consumed = TRUE])
    /\ stale' = stale \ {frame[h].ChannelID}
    /\ outstanding' = [outstanding EXCEPT ![frame[h].ChannelID] = @ - 1]
    /\ lastInstall' = [lastInstall EXCEPT ![frame[h].ChannelID] = <<>>]
    /\ UNCHANGED <<file, fileMutex, expected>>

\* Line 51: the name handed to ForceAddRestaurant.
\* (Faulty variant: the matched name is handed over.)
ForceAddMatched(confirmation) == confirmation.MatchedName
ForceAddArgument(confirmation) == confirmation.NewName

\* Lines 49-51: "!no" up to the call of ForceAddRestaurant(confirmation.NewName).
ConfirmNo(h) ==
    /\ frame[h].pc = "L49"
    /\ pendingConfirmations' = MapDelete(pendingConfirmations, frame[h].ChannelID)
    /\ pendingConfirmationsMutex' = Unlock(pendingConfirmationsMutex)
    /\ SetFrame(h, [frame[h] EXCEPT !.pc = "L274",
                                    !.restaurantName = ForceAddArgument(frame[h].confirmation)])
    /\ SetHist(h, [hist[h] EXCEPT !.consumed = TRUE,
                                  !.listChanged = (frame[h].ChannelID \in stale)])
    /\ stale' = stale \ {frame[h].ChannelID}
    /\ outstanding' = [outstanding EXCEPT ![frame[h].ChannelID] = @ - 1]
    /\ lastInstall' = [lastInstall EXCEPT ![frame[h].ChannelID] = <<>>]
    /\ UNCHANGED <<file, fileMutex, expected>>

\* Lines 60-62: the re-prompt is sent with the mutex held, then it is released.
Reprompt(h) ==
    /\ frame[h].pc = "L60"
    /\ pendingConfirmationsMutex' = Unlock(pendingConfirmationsMutex)
    /\ SetFrame(h, Return(frame[h], "Reprompt"))
    /\ UNCHANGED <<file, fileMutex, pendingConfirmations, hist, expected, stale, outstanding, lastInstall>>

\* Lines 68-71.
Ping(h) ==
    /\ NotPending(h)
    /\ frame[h].Content = <<"!ping">>
    /\ SetFrame(h, Return(frame[h], "Pong"))
    /\ UNCHANGED <<file, fileMutex, pendingConfirmations, pendingConfirmationsMutex,
                   hist, expected, stale, outstanding, lastInstall>>

\* Lines 73-74: "!list" calls GetAllRestaurants.
ListCmd(h) ==
    /\ NotPending(h)
    /\ frame[h].Content = <<"!list">>
    /\ SetFrame(h, [frame[h] EXCEPT !.pc = "L192"])
    /\ UNCHANGED <<file, fileMutex, pendingConfirmations, pendingConfirmationsMutex,
                   hist, expected, stale, outstanding, lastInstall>>

\* Lines 90-99, 150-167: the health probe succeeds or fails.
Ml(h) ==
    /\ NotPending(h)
    /\ frame[h].Content = <<"!ml">>
    /\ \E healthy \in BOOLEAN :
         SetFrame(h, Return(frame[h], IF healthy THEN "MlPresent" ELSE "MlFailed"))
    /\ UNCHANGED <<file, fileMutex, pendingConfirmations, pendingConfirmationsMutex,
                   hist, expected, stale, outstanding, lastInstall>>

IsRemove(c) == HasPrefix(c, RemovePrefix) /\ HasSuffix(c, <<Q>>)
IsAdd(c) == HasPrefix(c, AddPrefix) /\ HasSuffix(c, <<Q>>)
RemoveName(c) == TrimSuffix(TrimPrefix(c, RemovePrefix), <<Q>>)
AddName(c) == TrimSuffix(TrimPrefix(c, AddPrefix), <<Q>>)
IsFixedCommand(c) == c \in {<<"!ping">>, <<"!list">>, <<"!ml">>}
\* Lines 103 and 121: restaurantName == "".
\* (Faulty variant: the test is missing.)
NameMissingNever(name) == FALSE
NameMissing(name) == name = <<>>

\* Lines 101-108: "!remove" up to the call of RemoveRestaurant.
RemoveCmd(h) ==
    /\ NotPending(h)
    /\ ~IsFixedCommand(frame[h].Content)
    /\ IsRemove(frame[h].Content)
    /\ LET name == RemoveName(frame[h].Content)
       IN SetFrame(h, IF NameMissing(name)
                      THEN Return([frame[h] EXCEPT !.restaurantName = name], "NameNeeded")
                      ELSE [frame[h] EXCEPT !.restaurantName = name, !.pc = "L305"])
    /\ UNCHANGED <<file, fileMutex, pendingConfirmations, pendingConfirmationsMutex,
                   hist, expected, stale, outstanding, lastInstall>>

\* Lines 119-126, 258, 210: "!add" up to CheckForDuplicate's GetAllRestaurants.
AddCmd(h) ==
    /\ NotPending(h)
    /\ ~IsFixedCommand(frame[h].Content)
    /\ ~IsRemove(frame[h].Content)
    /\ IsAdd(frame[h].Content)
    /\ LET name == AddName(frame[h].Content)
       IN SetFrame(h, IF NameMissing(name)
                      THEN Return([frame[h] EXCEPT !.restaurantName = name], "NameNeeded")
                      ELSE [frame[h] EXCEPT !.restaurantName = name, !.pc = "L192"])
    /\ UNCHANGED <<file, fileMutex, pendingConfirmations, pendingConfirmationsMutex,
                   hist, expected, stale, outstanding, lastInstall>>

\* Line 147: no command matches (this includes "!yes"/"!no" with nothing pending).
NoCommand(h) ==
    /\ NotPending(h)
    /\ ~IsFixedCommand(frame[h].Content)
    /\ ~IsRemove(frame[h].Content)
    /\ ~IsAdd(frame[h].Content)
    /\ SetFrame(h, Return(frame[h], ""))
    /\ UNCHANGED <<file, fileMutex, pendingConfirmations, pendingConfirmationsMutex,
                   hist, expected, stale, outstanding, lastInstall>>

\* -------------------------------------------------------- record store
\* Storage outcomes: ReadFile/Unmarshal and MarshalIndent/WriteFile either
\* succeed or fail; a failed write leaves the file as it was.
IoOutcomes == {"ok", "failed"}

\* Line 192.
GetAll_Lock(h) ==
    /\ frame[h].pc = "L192"
    /\ CanLock(fileMutex)
    /\ fileMutex' = h
    /\ SetFrame(h, [frame[h] EXCEPT !.pc = "L195"])
    /\ UNCHANGED <<file, pendingConfirmations, pendingConfirmationsMutex, hist, expected, stale, outstanding, lastInstall>>

\* Lines 195-205 and the deferred unlock; then the caller's next lines:
\* "!list" replies (75-87), CheckForDuplicate goes on to the request (211-233),
\* or its error comes back through AddRestaurant to the handler (259-260, 127-130).
GetAll_Read(h) ==
    /\ frame[h].pc = "L195"
    /\ fileMutex' = Unlock(fileMutex)
    /\ \E io \in IoOutcomes :
         /\ SetFrame(h,
              IF frame[h].Content = <<"!list">>
              THEN IF io = "failed" THEN [Return(frame[h], "ListFailed") EXCEPT !.err = "io"]
                   ELSE [Return(frame[h], IF Len(file) = 0 THEN "NoneFound" ELSE "Listed")
                           EXCEPT !.restaurants = file]
              ELSE IF io = "failed" THEN [Return(frame[h], "AddError") EXCEPT !.err = "io"]
                   ELSE [frame[h] EXCEPT !.pc = "L233"])
         /\ SetHist(h, [hist[h] EXCEPT !.ioFailed = (io = "failed")])
    /\ UNCHANGED <<file, pendingConfirmations, pendingConfirmationsMutex, expected, stale, outstanding, lastInstall>>

\* Line 263: AddRestaurant's test of the verdict.
\* (Faulty variant: the verdict is ignored.)
IsDuplicateVerdictIgnored(info) == FALSE
IsDuplicateVerdict(info) == info.IsDuplicate

\* Lines 233-251, 258-268, 126-133: the HTTP round trip ends; the reply is
\* decoded and AddRestaurant either fails, reports the duplicate or goes on to
\* ForceAddRestaurant.
OracleRespond(h) ==
    /\ frame[h].pc = "L233"
    /\ \E r \in OracleReplies :
         /\ SetHist(h, [hist[h] EXCEPT !.oracle = r])
         /\ SetFrame(h,
              IF r.transport = "failed" \/ DecodeFails(r)
              THEN [Return(frame[h], "AddError") EXCEPT !.err = "oracle"]
              ELSE IF IsDuplicateVerdict(DuplicateCheckResponse(r))
                   THEN [frame[h] EXCEPT !.duplicateInfo = DuplicateCheckResponse(r),
                                         !.pc = "L135"]
                   ELSE [frame[h] EXCEPT !.pc = "L274"])
    /\ UNCHANGED <<file, fileMutex, pendingConfirmations, pendingConfirmationsMutex,
                   expected, stale, outstanding, lastInstall>>

\* Line 135.
InstallLock(h) ==
    /\ frame[h].pc = "L135"
    /\ CanLock(pendingConfirmationsMutex)
    /\ pendingConfirmationsMutex' = h
    /\ SetFrame(h, [frame[h] EXCEPT !.pc = "L136"])
    /\ UNCHANGED <<file, fileMutex, pendingConfirmations, hist, expected, stale, outstanding, lastInstall>>

\* Lines 136-142.
Install(h) ==
    /\ frame[h].pc = "L136"
    /\ pendingConfirmations' =
         MapPut(pendingConfirmations, frame[h].ChannelID,
                PendingConfirmation(frame[h].restaurantName,
                                    frame[h].duplicateInfo.MatchedName))
    /\ pendingConfirmationsMutex' = Unlock(pendingConfirmationsMutex)
    /\ SetFrame(h, Return(frame[h], "AskConfirm"))
    /\ SetHist(h, [hist[h] EXCEPT !.installed = TRUE])
    /\ stale' = stale \ {frame[h].ChannelID}
    /\ outstanding' = [outstanding EXCEPT ![frame[h].ChannelID] =
                         IF MapHas(pendingConfirmations, frame[h].ChannelID) THEN @ ELSE @ + 1]
    /\ lastInstall' = [lastInstall EXCEPT ![frame[h].ChannelID] = frame[h].restaurantName]
    /\ UNCHANGED <<file, fileMutex, expected>>

\* The reply after ForceAddRestaurant: lines 52-57 for "!no", 127-145 for "!add".
AddReply(f, failed) ==
    IF f.ok THEN (IF failed THEN "ForceAddFailed" ELSE "ForceAdded")
    ELSE (IF failed THEN "AddError" ELSE "Added")

\* Line 287: restaurants = append(restaurants, name).
\* (Faulty variant: a name already in the list is not added again.)
AppendUnlessPresent(restaurants, name) ==
    IF \E i \in 1..Len(restaurants) : restaurants[i] = name
    THEN restaurants ELSE Append(restaurants, name)
AppendRestaurant(restaurants, name) == Append(restaurants, name)

\* Lines 274-287: lock, read, append to the local slice.
ForceAdd_Read(h) ==
    /\ frame[h].pc = "L274"
    /\ CanLock(fileMutex)
    /\ \E io \in IoOutcomes :
         /\ SetFrame(h,
              IF io = "failed"
              THEN [Return(frame[h], AddReply(frame[h], TRUE)) EXCEPT !.err = "io"]
              ELSE [frame[h] EXCEPT !.restaurants = AppendRestaurant(file, frame[h].restaurantName),
                                    !.pc = "L294"])
         /\ fileMutex' = IF io = "failed" THEN Unlock(h) ELSE h
         /\ SetHist(h, [hist[h] EXCEPT !.ioFailed = (io = "failed")])
    /\ UNCHANGED <<file, pendingConfirmations, pendingConfirmationsMutex, expected, stale, outstanding, lastInstall>>

\* Lines 289-298 and the deferred unlock.
ForceAdd_Write(h) ==
    /\ frame[h].pc = "L294"
    /\ fileMutex' = Unlock(fileMutex)
    /\ \E io \in IoOutcomes :
         IF io = "failed"
         THEN /\ SetFrame(h, [Return(frame[h], AddReply(frame[h], TRUE)) EXCEPT !.err = "io"])
              /\ SetHist(h, [hist[h] EXCEPT !.ioFailed = TRUE])
              /\ UNCHANGED <<file, expected, stale>>
         ELSE /\ file' = frame[h].restaurants
              /\ SetFrame(h, [Return(frame[h], AddReply(frame[h], FALSE))
                                EXCEPT !.count = Len(frame[h].restaurants)])
              /\ SetHist(h, [hist[h] EXCEPT !.wrote = TRUE])
              /\ expected' = Append(expected, frame[h].restaurantName)
              /\ stale' = DOMAIN pendingConfirmations
    /\ UNCHANGED <<pendingConfirmations, pendingConfirmationsMutex, outstanding, lastInstall>>

\* Lines 318-326: the loop keeps every record that differs from name.
NewRestaurants(restaurants, name) == SelectSeq(restaurants, LAMBDA r : r # name)
\* (Faulty variant: found starts true.)
FoundAlways(restaurants, name) == TRUE
Found(restaurants, name) == \E i \in 1..Len(restaurants) : restaurants[i] = name

\* Lines 305-330: lock, read, filter; lines 109-113 of the handler on an error.
Remove_Read(h) ==
    /\ frame[h].pc = "L305"
    /\ CanLock(fileMutex)
    /\ \E io \in IoOutcomes :
         /\ SetFrame(h,
              IF io = "failed"
              THEN [Return(frame[h], "RemoveFailed") EXCEPT !.err = "io"]
              ELSE IF ~Found(file, frame[h].restaurantName)
                   THEN [Return(frame[h], "RemoveFailed")
                           EXCEPT !.err = "notfound", !.count = Len(file)]
                   ELSE [frame[h] EXCEPT
                           !.restaurants = NewRestaurants(file, frame[h].restaurantName),
                           !.pc = "L337"])
         /\ fileMutex' = IF io = "ok" /\ Found(file, frame[h].restaurantName)
                         THEN h ELSE Unlock(h)
         /\ SetHist(h, [hist[h] EXCEPT !.ioFailed = (io = "failed")])
    /\ UNCHANGED <<file, pendingConfirmations, pendingConfirmationsMutex, expected, stale, outstanding, lastInstall>>

\* Lines 332-341 and the deferred unlock; lines 109-116 of the handler.
Remove_Write(h) ==
    /\ frame[h].pc = "L337"
    /\ fileMutex' = Unlock(fileMutex)
    /\ \E io \in IoOutcomes :
         IF io = "failed"
         THEN /\ SetFrame(h, [Return(frame[h], "RemoveFailed") EXCEPT !.err = "io", !.count = 0])
              /\ SetHist(h, [hist[h] EXCEPT !.ioFailed = TRUE])
              /\ UNCHANGED <<file, expected, stale>>
         ELSE /\ file' = frame[h].restaurants
              /\ SetFrame(h, [Return(frame[h], "Removed")
                                EXCEPT !.count = Len(frame[h].restaurants)])
              /\ SetHist(h, [hist[h] EXCEPT !.wrote = TRUE])
              /\ expected' = NewRestaurants(expected, frame[h].restaurantName)
              /\ stale' = DOMAIN pendingConfirmations
    /\ UNCHANGED <<pendingConfirmations, pendingConfirmationsMutex, outstanding, lastInstall>>

\* ---------------------------------------------------------- specification
Next ==
    \E h \in Handlers :
        \/ Receive(h)
        \/ Exit(h)
        \/ CheckPendingFound(h)
        \/ ConfirmYes(h)
        \/ ConfirmNo(h)
        \/ Reprompt(h)
        \/ Ping(h)
        \/ ListCmd(h)
        \/ Ml(h)
        \/ RemoveCmd(h)
        \/ AddCmd(h)
        \/ NoCommand(h)
        \/ GetAll_Lock(h)
        \/ GetAll_Read(h)
        \/ OracleRespond(h)
        \/ InstallLock(h)
        \/ Install(h)
        \/ ForceAdd_Read(h)
        \/ ForceAdd_Write(h)
        \/ Remove_Read(h)
        \/ Remove_Write(h)

Spec == Init /\ [][Next]_vars

\* The steps a handler goroutine takes by itself once its message has arrived:
\* everything but the arrival of the message and the arrival of the oracle's
\* reply.
LocalStep(h) ==
    \/ Exit(h)
    \/ CheckPendingFound(h)
    \/ ConfirmYes(h)
    \/ ConfirmNo(h)
    \/ Reprompt(h)
    \/ Ping(h)
    \/ ListCmd(h)
    \/ Ml(h)
    \/ RemoveCmd(h)
    \/ AddCmd(h)
    \/ NoCommand(h)
    \/ GetAll_Lock(h)
    \/ GetAll_Read(h)
    \/ InstallLock(h)
    \/ Install(h)
    \/ ForceAdd_Read(h)
    \/ ForceAdd_Write(h)
    \/ Remove_Read(h)
    \/ Remove_Write(h)

\* Fair scheduling: a goroutine that can run does run, and a goroutine that
\* waits in Lock gets the mutex (sync.Mutex hands a mutex to a waiter that has
\* been passed over).  Line 233 uses http.Post of the default client, which
\* sets no timeout: nothing in the program makes the round trip end, so the
\* arrival of a reply is not a step the program guarantees.
SilentOracleSpec == Spec /\ \A h \in Handlers : SF_vars(LocalStep(h))

\* Fair scheduling with collaborator calls that return: in addition every
\* oracle round trip ends.  The two mutexes are shared by all channels, so
\* the handlers' waiting for one another is the same whatever the channel:
\* here the messages all arrive on one channel.
FairChannels == {"c1"}
FairReceive(h) == Receive(h) /\ frame'[h].ChannelID \in FairChannels
FairNext == \E h \in Handlers : FairReceive(h) \/ LocalStep(h) \/ OracleRespond(h)
FairSpec ==
    /\ Init
    /\ [][FairNext]_vars
    /\ \A h \in Handlers : SF_vars(LocalStep(h)) /\ WF_vars(OracleRespond(h))

\* ------------------------------------------------------------ properties
Done(h) == frame[h].pc = "done"
Present(ch) == IF MapHas(pendingConfirmations, ch) THEN 1 ELSE 0
\* Handler h takes a step.
Steps(h) == frame'[h] # frame[h]
\* The pcs inside a critical section of each mutex.
StorePcs == {"L195", "L294", "L337"}
PendingPcs == {"L44", "L49", "L60", "L136"}
\* What the oracle answered, read off the reply itself.
OracleFailed(r) ==
    r.transport = "failed"
    \/ (r.transport = "ok" /\ (~r.body.valid \/ r.body.is_duplicate = "mistyped"))
OracleSaidDuplicate(r) ==
    r.transport = "ok" /\ r.body.valid /\ r.body.is_duplicate = "true"
OracleSaidNoDuplicate(r) ==
    r.transport = "ok" /\ r.body.valid /\ r.body.is_duplicate \in {"false", "absent"}
Occurs(list, name) == \E i \in 1..Len(list) : list[i] = name
FirstIndex(list, name) == CHOOSE i \in 1..Len(list) :
                              list[i] = name /\ \A j \in 1..(i - 1) : list[j] # name
RemoveFirst(list, name) ==
    LET i == FirstIndex(list, name)
    IN SubSeq(list, 1, i - 1) \o SubSeq(list, i + 1, Len(list))

\* C1: no lost updates.  In every reachable state, under every interleaving of
\* the handlers, the stored list is the initial list with each append that
\* returned success added once at the end, in the order the appends returned
\* (and each successful remove applied): its length is the initial length plus
\* the number of successful appends, and no successful append is overwritten.
C1_NoLostAppend == file = expected

\* Both handlers have appended and returned success.
C1_Witness ==
    \A h \in Handlers :
        Done(h) /\ hist[h].wrote /\ frame[h].reply \in {"Added", "ForceAdded"}

C3_ResolvedOnce ==
    /\ \A ch \in Channels : outstanding[ch] = Present(ch)
    /\ \A h \in Handlers :
         (Done(h) /\ ~frame[h].ok
            /\ ToLower(frame[h].Content) \in {<<"!yes">>, <<"!no">>}) =>
              /\ ~hist[h].consumed /\ ~hist[h].installed /\ ~hist[h].wrote
              /\ frame[h].reply = ""

\* One handler consumed the entry of a channel; a "!no" on the same channel
\* found nothing pending.
C3_Witness ==
    \E h, k \in Handlers :
        /\ Done(h) /\ hist[h].consumed
        /\ Done(k) /\ ~frame[k].ok /\ ToLower(frame[k].Content) = <<"!no">>
        /\ frame[k].ChannelID = frame[h].ChannelID
        /\ ~MapHas(pendingConfirmations, frame[h].ChannelID)

\* C4: a "!no" that consumes an entry calls no oracle, hands the entry's
\* candidate name to ForceAddRestaurant and, unless the storage fails, appends
\* exactly that name to the list as it is at that moment.
C4_RejectCommits ==
    /\ [](\A h \in Handlers :
            /\ frame[h].pc = "L49" =>
                 /\ MapHas(pendingConfirmations, frame[h].ChannelID)
                 /\ frame[h].confirmation = pendingConfirmations[frame[h].ChannelID]
            /\ (hist[h].consumed /\ ToLower(frame[h].Content) = <<"!no">>) =>
                 /\ hist[h].oracle = NoCall
                 /\ frame[h].restaurantName = frame[h].confirmation.NewName
                 /\ frame[h].pc \in {"L274", "L294", "done"}
                 /\ Done(h) => /\ frame[h].reply \in {"ForceAdded", "ForceAddFailed"}
                               /\ frame[h].reply = "ForceAdded" <=> ~hist[h].ioFailed
                               /\ frame[h].reply = "ForceAdded" <=> hist[h].wrote)
    /\ [][\A h \in Handlers :
            Steps(h) /\ frame'[h].reply = "ForceAdded" =>
                file' = Append(file, frame[h].confirmation.NewName)]_vars

\* A "!no" appended its candidate after the list had been written since the
\* entry was installed.
C4_Witness ==
    \E h \in Handlers :
        Done(h) /\ frame[h].reply = "ForceAdded" /\ hist[h].listChanged

\* C5: when the oracle call fails (no response, or a body that does not
\* decode), the "!add" ends with the error reply, its handler has written
\* nothing to the list and has installed no entry.
C5_OracleFailure ==
    \A h \in Handlers :
        OracleFailed(hist[h].oracle) =>
            /\ Done(h)
            /\ frame[h].reply = "AddError"
            /\ ~hist[h].wrote
            /\ ~hist[h].installed

C5_Witness ==
    \E h, k \in Handlers :
        /\ Done(h) /\ hist[h].oracle.transport = "failed" /\ frame[h].reply = "AddError"
        /\ Done(k) /\ hist[k].oracle.transport = "ok" /\ ~hist[k].oracle.body.valid
        /\ frame[k].reply = "AddError"

\* C6: a successful remove(name) takes out only the first record equal to name
\* and returns the previous count minus one.
C6_RemovesFirstOnly ==
    [][\A h \in Handlers :
         Steps(h) /\ frame'[h].reply = "Removed" =>
             /\ file' = RemoveFirst(file, frame[h].restaurantName)
             /\ frame'[h].count = Len(file) - 1]_vars

\* C7: a remove(name) that reads a list with no record equal to name returns
\* the not-found error without going on to the write; the list stays as it is
\* and the lock is free again.
C7_RemoveNotFound ==
    /\ [][\A h \in Handlers :
            (frame[h].pc = "L305" /\ Steps(h) /\ ~hist'[h].ioFailed
               /\ ~Occurs(file, frame[h].restaurantName)) =>
                 /\ frame'[h].pc = "done"
                 /\ frame'[h].err = "notfound"
                 /\ frame'[h].reply = "RemoveFailed"
                 /\ file' = file
                 /\ fileMutex' = Nobody]_vars
    /\ [](\A h \in Handlers : frame[h].err = "notfound" => Done(h) /\ ~hist[h].wrote)

C7_Witness ==
    \E h \in Handlers :
        /\ Done(h) /\ frame[h].err = "notfound"
        /\ file # <<>> /\ ~Occurs(file, frame[h].restaurantName)

\* C8: a handler whose oracle request is in flight does not hold the store
\* lock, which is held exactly by the handler between the lock and the unlock
\* of a store operation.
C8_NoLockAcrossOracle ==
    \A h \in Handlers :
        /\ frame[h].pc = "L233" => fileMutex # h
        /\ fileMutex = h <=> frame[h].pc \in StorePcs

\* While one oracle request is in flight another handler is inside a store
\* operation, holding the lock.
C8_Witness ==
    \E h, k \in Handlers :
        frame[h].pc = "L233" /\ k # h /\ fileMutex = k /\ frame[k].pc \in StorePcs

\* C9: at most one handler is inside a store operation and at most one is
\* inside a critical section of the pending-entry map, each holding the
\* mutex of the state it accesses.
C9_MutualExclusion ==
    /\ Cardinality({h \in Handlers : frame[h].pc \in StorePcs}) <= 1
    /\ Cardinality({h \in Handlers : frame[h].pc \in PendingPcs}) <= 1
    /\ \A h \in Handlers :
         /\ frame[h].pc \in StorePcs => fileMutex = h
         /\ frame[h].pc \in PendingPcs => pendingConfirmationsMutex = h

\* One handler is between the read and the write of an append while the other
\* waits for the store lock.
C9_Witness ==
    \E h, k \in Handlers :
        frame[h].pc = "L294" /\ frame[k].pc \in {"L192", "L274", "L305"}

\* C10: a message other than "!yes"/"!no" on a channel with a pending entry is
\* answered with the re-prompt only: the handler leaves the entry and the list
\* as they are, calls no oracle, writes, installs and consumes nothing.
C10_RepromptOnly ==
    /\ [][\A h \in Handlers :
            (Steps(h) /\ frame[h].pc = "L40"
               /\ MapHas(pendingConfirmations, frame[h].ChannelID)
               /\ ToLower(frame[h].Content) \notin {<<"!yes">>, <<"!no">>}) =>
                 /\ frame'[h].pc = "L60"
                 /\ UNCHANGED <<file, pendingConfirmations, hist>>]_vars
    /\ [][\A h \in Handlers :
            (Steps(h) /\ frame[h].pc = "L60") =>
                 /\ frame'[h].pc = "done"
                 /\ frame'[h].reply = "Reprompt"
                 /\ UNCHANGED <<file, pendingConfirmations, hist>>]_vars
    /\ [](\A h \in Handlers :
            frame[h].pc = "L60" \/ frame[h].reply = "Reprompt" => hist[h] = NewHist)

\* An "!add" received while its channel had a pending entry got the re-prompt;
\* the entry is still there.
C10_Witness ==
    \E h \in Handlers :
        /\ Done(h) /\ frame[h].reply = "Reprompt" /\ IsAdd(frame[h].Content)
        /\ MapHas(pendingConfirmations, frame[h].ChannelID)
        /\ pendingConfirmations[frame[h].ChannelID] = frame[h].confirmation

\* C11: a "!yes" on a channel with a pending entry goes to the accept branch,
\* which removes the channel's entry and replies that nothing will be added:
\* the steps of that handler leave the stored list as it is, and the handler
\* makes no oracle call, no store read or write and no install.
C11_AcceptWritesNothing ==
    /\ [][\A h \in Handlers :
            (Steps(h) /\ frame[h].pc = "L40"
               /\ MapHas(pendingConfirmations, frame[h].ChannelID)
               /\ ToLower(frame[h].Content) = <<"!yes">>) =>
                 /\ frame'[h].pc = "L44"
                 /\ UNCHANGED <<file, pendingConfirmations, hist>>]_vars
    /\ [][\A h \in Handlers :
            (Steps(h) /\ frame[h].pc = "L44") =>
                 /\ frame'[h].pc = "done"
                 /\ frame'[h].reply = "WillNotAdd"
                 /\ MapHas(pendingConfirmations, frame[h].ChannelID)
                 /\ ~MapHas(pendingConfirmations', frame[h].ChannelID)
                 /\ file' = file
                 /\ hist'[h] = [NewHist EXCEPT !.consumed = TRUE]]_vars
    /\ [](\A h \in Handlers :
            frame[h].pc = "L44" \/ frame[h].reply = "WillNotAdd" =>
                /\ hist[h].oracle = NoCall
                /\ ~hist[h].wrote /\ ~hist[h].ioFailed /\ ~hist[h].installed)

\* A "!yes" has been answered, the channel's entry is gone and the list, which
\* holds a record, is what it was.
C11_Witness ==
    \E h \in Handlers :
        /\ Done(h) /\ frame[h].reply = "WillNotAdd" /\ hist[h].consumed
        /\ ~MapHas(pendingConfirmations, frame[h].ChannelID)
        /\ file # <<>> /\ file = expected

\* C12: a channel has at most one pending entry and an install overwrites it:
\* the entry present on a channel is always the candidate of the latest
\* install on that channel, whatever was there before; a "!no" that has found
\* an entry holds that latest entry, and the name it commits is that entry's
\* candidate, never the candidate of an overwritten entry.
C12_InstallOverwrites ==
    /\ \A ch \in Channels :
         /\ outstanding[ch] \in {0, 1}
         /\ IF MapHas(pendingConfirmations, ch)
            THEN /\ lastInstall[ch] # <<>>
                 /\ pendingConfirmations[ch].NewName = lastInstall[ch]
            ELSE lastInstall[ch] = <<>>
    /\ \A h \in Handlers :
         /\ frame[h].pc = "L49" =>
              frame[h].confirmation.NewName = lastInstall[frame[h].ChannelID]
         /\ (hist[h].consumed /\ ToLower(frame[h].Content) = <<"!no">>) =>
              frame[h].restaurantName = frame[h].confirmation.NewName
         /\ (Done(h) /\ hist[h].installed
               /\ MapHas(pendingConfirmations, frame[h].ChannelID)
               /\ lastInstall[frame[h].ChannelID] # frame[h].restaurantName) =>
              pendingConfirmations[frame[h].ChannelID].NewName # frame[h].restaurantName

\* Two "!add" with different candidates both installed on one channel and have
\* finished; the channel holds one entry, the later one.
C12_Witness ==
    \E h, k \in Handlers :
        /\ Done(h) /\ hist[h].installed /\ Done(k) /\ hist[k].installed
        /\ frame[h].ChannelID = frame[k].ChannelID
        /\ frame[h].restaurantName # frame[k].restaurantName
        /\ MapHas(pendingConfirmations, frame[h].ChannelID)
        /\ lastInstall[frame[h].ChannelID] = frame[k].restaurantName

\* The channel a step of handler h belongs to.
StepChannel(h) == IF frame[h].pc = "new" THEN frame'[h].ChannelID ELSE frame[h].ChannelID

\* C13: a step of a handler for a message of one channel leaves the pending
\* entry of every other channel as it is (none is created, changed or removed),
\* and a "!no" hands ForceAddRestaurant the candidate of its own channel's entry.
C13_ScopesIsolated ==
    /\ [][\A h \in Handlers : Steps(h) =>
            \A ch \in Channels \ {StepChannel(h)} :
                /\ MapHas(pendingConfirmations', ch) <=> MapHas(pendingConfirmations, ch)
                /\ MapHas(pendingConfirmations, ch) =>
                       pendingConfirmations'[ch] = pendingConfirmations[ch]]_vars
    /\ [][\A h \in Handlers :
            (Steps(h) /\ frame[h].pc = "L49") =>
                frame'[h].restaurantName =
                    pendingConfirmations[frame[h].ChannelID].NewName]_vars

\* A "!no" on one channel has committed its candidate while the other channel
\* still holds its entry, with a different candidate.
C13_Witness ==
    \E h \in Handlers, ch \in Channels :
        /\ Done(h) /\ frame[h].reply = "ForceAdded" /\ ch # frame[h].ChannelID
        /\ MapHas(pendingConfirmations, ch)
        /\ pendingConfirmations[ch].NewName # frame[h].restaurantName
        /\ ~Occurs(file, pendingConfirmations[ch].NewName)

\* C14: the oracle attempt of an "!add" is bounded by a timeout: a handler
\* whose request is in flight eventually leaves the round trip, also when the
\* oracle sends no reply.
C14_OracleBounded ==
    \A h \in Handlers : frame[h].pc = "L233" ~> frame[h].pc # "L233"

\* C15 as claimed: an oracle response that decodes as JSON in which
\* is_duplicate is absent or is not a boolean counts as "no duplicate": unless
\* the storage fails, the "!add" appends the candidate and replies Added.
C15_AbsentOrMistypedCommits ==
    \A h \in Handlers :
        (/\ hist[h].oracle.transport = "ok" /\ hist[h].oracle.body.valid
         /\ hist[h].oracle.body.is_duplicate \in {"absent", "mistyped"}
         /\ Done(h) /\ ~hist[h].ioFailed) =>
            frame[h].reply = "Added" /\ hist[h].wrote

\* C15 as amended: a response in which is_duplicate is absent counts as "no
\* duplicate" and the "!add" goes on to the append, installing nothing (it
\* replies Added unless the storage fails); a response in which is_duplicate
\* is not a boolean is a decode failure: the "!add" ends with the error reply
\* and has written and installed nothing.
C15_AbsentCommitsMistypedFails ==
    \A h \in Handlers :
        (hist[h].oracle.transport = "ok" /\ hist[h].oracle.body.valid) =>
            /\ hist[h].oracle.body.is_duplicate = "absent" =>
                 /\ frame[h].pc \in {"L274", "L294", "done"}
                 /\ ~hist[h].installed
                 /\ Done(h) => frame[h].reply \in {"Added", "AddError"}
                 /\ Done(h) /\ ~hist[h].ioFailed =>
                        frame[h].reply = "Added" /\ hist[h].wrote
            /\ hist[h].oracle.body.is_duplicate = "mistyped" =>
                 /\ Done(h) /\ frame[h].reply = "AddError" /\ frame[h].err = "oracle"
                 /\ ~hist[h].wrote /\ ~hist[h].installed

\* One "!add" got a verdict without is_duplicate and added its candidate;
\* another got a non-boolean is_duplicate and ended with the error.
C15_Witness ==
    \E h, k \in Handlers :
        /\ Done(h) /\ hist[h].oracle.body.valid /\ hist[h].oracle.status = 200
        /\ hist[h].oracle.body.is_duplicate = "absent" /\ frame[h].reply = "Added"
        /\ Done(k) /\ hist[k].oracle.body.is_duplicate = "mistyped"
        /\ frame[k].reply = "AddError"

\* C16: an "!add" or "!remove" whose name is empty, on a channel with nothing
\* pending, is answered with the request for a name in the same step: no store
\* read or write, no oracle call, no install.  No empty name is ever in the
\* stored list or in a pending entry.
C16_EmptyNameNoCollaborator ==
    /\ [][\A h \in Handlers :
            (/\ Steps(h) /\ frame[h].pc = "L40"
             /\ ~MapHas(pendingConfirmations, frame[h].ChannelID)
             /\ \/ IsAdd(frame[h].Content) /\ AddName(frame[h].Content) = <<>>
                \/ IsRemove(frame[h].Content) /\ RemoveName(frame[h].Content) = <<>>) =>
                  /\ frame'[h].pc = "done"
                  /\ frame'[h].reply = "NameNeeded"
                  /\ UNCHANGED <<file, fileMutex, pendingConfirmations, hist>>]_vars
    /\ [](/\ \A i \in 1..Len(file) : file[i] # <<>>
          /\ \A ch \in DOMAIN pendingConfirmations :
                 pendingConfirmations[ch].NewName # <<>>
          /\ \A h \in Handlers : frame[h].reply = "NameNeeded" => hist[h] = NewHist)

\* An "!add" and a "!remove" with empty names have both been answered.
C16_Witness ==
    \E h, k \in Handlers :
        /\ Done(h) /\ IsAdd(frame[h].Content) /\ frame[h].reply = "NameNeeded"
        /\ Done(k) /\ IsRemove(frame[k].Content) /\ frame[k].reply = "NameNeeded"
        /\ frame[h].restaurantName = <<>> /\ frame[k].restaurantName = <<>>

\* C17: a successful append puts the name at the end of the list as it is,
\* also when the name is already in it, and returns the previous length plus
\* one; no other step makes the list longer; a successful "!list" returns the
\* stored list, in its order.
C17_AppendKeepsOrder ==
    /\ [][\A h \in Handlers :
            (Steps(h) /\ frame[h].pc = "L294" /\ ~hist'[h].ioFailed) =>
                /\ file' = Append(file, frame[h].restaurantName)
                /\ frame'[h].count = Len(file) + 1]_vars
    /\ [][Len(file') > Len(file) =>
            \E h \in Handlers : Steps(h) /\ frame[h].pc = "L294"]_vars
    /\ [][\A h \in Handlers :
            (Steps(h) /\ frame[h].pc = "L195" /\ frame[h].Content = <<"!list">>
               /\ ~hist'[h].ioFailed) =>
                /\ frame'[h].restaurants = file
                /\ file' = file]_vars

\* A name already in the list has been appended again, and a "!list" has
\* returned the list with both records.
C17_Witness ==
    \E h, k \in Handlers, n \in Names :
        /\ Done(h) /\ frame[h].reply \in {"Added", "ForceAdded"}
        /\ frame[h].restaurantName = n /\ frame[h].count = 2
        /\ file = <<n, n>>
        /\ Done(k) /\ frame[k].reply = "Listed" /\ frame[k].restaurants = file

\* C18: when the oracle answers with a non-success HTTP status, the candidate
\* is not committed: the handler of that "!add" writes nothing to the list and
\* ends with the error reply.
C18_ErrorStatusFailsClosed ==
    \A h \in Handlers :
        (hist[h].oracle.transport = "ok" /\ hist[h].oracle.status # 200) =>
            /\ ~hist[h].wrote
            /\ Done(h) => frame[h].reply = "AddError"

\* The pcs at which a handler is in a transport send that comes before its
\* next step on shared state, in a store function, in the oracle round trip.
SendPcs == {"L60"}
StoreCallPcs == {"L192", "L195", "L274", "L294", "L305", "L337"}
OraclePcs == {"L233"}

\* C19: a handler that holds the pending-entry mutex is at the map's lookup,
\* delete or assignment: it is not in a transport send, a store operation or
\* the oracle round trip.
C19_PendingLockOnlyForMap ==
    \A h \in Handlers :
        pendingConfirmationsMutex = h =>
            frame[h].pc \notin SendPcs \cup StoreCallPcs \cup OraclePcs

\* A handler that has a message and has not yet returned.
Running(h) == frame[h].pc \notin {"new", "done"}

\* C20: no handler holds both mutexes at once; a handler that has returned (or
\* has no message) holds none, and a mutex is held only by the handler inside
\* the critical section it guards; whenever some handler is running, some
\* running handler can take a step (no deadlock); and with fair scheduling and
\* collaborator calls that return, every handler that has received a message
\* returns.
C20_NoDeadlock ==
    /\ [](\A h \in Handlers :
            /\ ~(fileMutex = h /\ pendingConfirmationsMutex = h)
            /\ ~Running(h) => fileMutex # h /\ pendingConfirmationsMutex # h
            /\ fileMutex = h <=> frame[h].pc \in StorePcs
            /\ pendingConfirmationsMutex = h <=> frame[h].pc \in PendingPcs)
    /\ []((\E h \in Handlers : Running(h)) =>
            \E h \in Handlers :
                Running(h) /\ ENABLED (LocalStep(h) \/ OracleRespond(h)))
    /\ \A h \in Handlers : Running(h) ~> Done(h)

\* One handler is inside the store's critical section while the other holds
\* the pending-entry mutex, and both go on.
C20_Witness ==
    \E h, k \in Handlers :
        /\ h # k
        /\ fileMutex = h /\ frame[h].pc \in StorePcs
        /\ pendingConfirmationsMutex = k /\ frame[k].pc \in PendingPcs

\* C21: a "!no" deletes the channel's entry before ForceAddRestaurant is
\* called; when the append then fails on a storage error, the failing step
\* leaves the stored list and the map as they are and the handler ends with the
\* failure reply, having written nothing; and an entry appears on a channel
\* only by a new install, so the consumed candidate is not pending again and a
\* repeated "!no" finds nothing to commit.
C21_RejectThenStorageFailure ==
    /\ [][\A h \in Handlers :
            (Steps(h) /\ frame[h].pc = "L49") =>
                /\ ~MapHas(pendingConfirmations', frame[h].ChannelID)
                /\ frame'[h].pc = "L274"
                /\ file' = file]_vars
    /\ [][\A h \in Handlers :
            (Steps(h) /\ frame[h].ok /\ frame[h].pc \in {"L274", "L294"}
               /\ hist'[h].ioFailed) =>
                /\ frame'[h].pc = "done"
                /\ frame'[h].reply = "ForceAddFailed"
                /\ UNCHANGED <<file, pendingConfirmations>>]_vars
    /\ [][\A ch \in Channels :
            (MapHas(pendingConfirmations', ch) /\ ~MapHas(pendingConfirmations, ch)) =>
                \E h \in Handlers :
                    Steps(h) /\ frame[h].pc = "L136" /\ frame[h].ChannelID = ch]_vars
    /\ [](\A h \in Handlers :
            frame[h].reply = "ForceAddFailed" =>
                /\ hist[h].consumed /\ ~hist[h].wrote /\ ~hist[h].installed
                /\ hist[h].oracle = NoCall)

\* A "!no" failed on the storage: its candidate is neither in the list nor
\* pending, and a second "!no" on the channel found nothing and did nothing.
C21_Witness ==
    \E h, k \in Handlers :
        /\ Done(h) /\ frame[h].reply = "ForceAddFailed"
        /\ ~MapHas(pendingConfirmations, frame[h].ChannelID)
        /\ ~Occurs(file, frame[h].restaurantName)
        /\ Done(k) /\ ToLower(frame[k].Content) = <<"!no">> /\ ~frame[k].ok
        /\ frame[k].ChannelID = frame[h].ChannelID
        /\ frame[k].reply = "" /\ ~hist[k].wrote

\* The oracle gave a verdict: a success reply whose body decodes.
VerdictGiven(r) == r.transport = "ok" /\ r.status = 200 /\ r.body.valid
VerdictDuplicate(r) == VerdictGiven(r) /\ r.body.is_duplicate = "true"
VerdictNoDuplicate(r) == VerdictGiven(r) /\ r.body.is_duplicate \in {"false", "absent"}

\* C22: every record that enters the stored list is put at its end either by
\* an "!add" for that name whose oracle verdict was "no duplicate", or by a
\* "!no" that consumed an entry holding that name; and every entry that enters
\* the map holds the non-empty name of an "!add" whose oracle verdict was
\* "duplicate", with that verdict's matched name.
C22_Provenance ==
    /\ [][file' # file /\ Len(file') >= Len(file) =>
            \E h \in Handlers :
                /\ Steps(h) /\ frame[h].pc = "L294"
                /\ file' = Append(file, frame[h].restaurantName)
                /\ \/ /\ ~frame[h].ok
                      /\ frame[h].restaurantName = AddName(frame[h].Content)
                      /\ VerdictNoDuplicate(hist[h].oracle)
                   \/ /\ frame[h].ok /\ hist[h].consumed
                      /\ frame[h].restaurantName = frame[h].confirmation.NewName]_vars
    /\ [][\A ch \in Channels :
            (/\ MapHas(pendingConfirmations', ch)
             /\ \/ ~MapHas(pendingConfirmations, ch)
                \/ pendingConfirmations'[ch] # pendingConfirmations[ch]) =>
                \E h \in Handlers :
                    /\ Steps(h) /\ frame[h].pc = "L136" /\ frame[h].ChannelID = ch
                    /\ VerdictDuplicate(hist[h].oracle)
                    /\ AddName(frame[h].Content) # <<>>
                    /\ pendingConfirmations'[ch] =
                           PendingConfirmation(AddName(frame[h].Content),
                                               hist[h].oracle.body.matched_name)]_vars

====
